---- MODULE Spec2Model ----
(***************************************************************************)
(* Model of scripts/file_processor.py: the ID scanner (get_next_id), the   *)
(* file normaliser (process_folder) and the orchestrator (main).           *)
(*                                                                         *)
(* A filename is a sequence of one-character strings.  A folder is a       *)
(* function from the names of its entries to the identity of the file      *)
(* behind each name (the name the file had when the model started), so     *)
(* that an overwrite is visible.                                           *)
(*                                                                         *)
(* Environment: names are compared character by character (a case-         *)
(* sensitive file system); nothing but the program changes the folders;    *)
(* shutil.move inside one directory either renames the entry, replacing an *)
(* existing destination, or raises and changes nothing; os.listdir either  *)
(* returns the names in some order or raises.  The program may be started  *)
(* again after a start that returned from main.                            *)
(***************************************************************************)
EXTENDS Integers, Sequences, FiniteSets, TLC

\* ------------------------------------------------------------------ bounds
\* Largest number of directory entries over all target folders together.
MaxFiles == 3
\* Number of times the program is started (main is called once per start).
MaxRuns == 2

\* ------------------------------------------------------------- characters
Digits == {"0", "1", "2", "3", "4", "5", "6", "7", "8", "9"}
LowerAZ == {"a", "b", "c", "d", "e", "f", "g", "h", "i", "j", "k", "l", "m",
            "n", "o", "p", "q", "r", "s", "t", "u", "v", "w", "x", "y", "z"}
NL == "\n"
MD == <<".", "m", "d">>
H == <<"-">>

IsDigit(c) == c \in Digits

\* int(): value of a non-empty sequence of decimal digits.
DigitVal(c) ==
  CASE c = "0" -> 0 [] c = "1" -> 1 [] c = "2" -> 2 [] c = "3" -> 3
    [] c = "4" -> 4 [] c = "5" -> 5 [] c = "6" -> 6 [] c = "7" -> 7
    [] c = "8" -> 8 [] c = "9" -> 9

RECURSIVE ParseInt(_)
ParseInt(ds) ==
  IF ds = <<>> THEN 0
  ELSE 10 * ParseInt(SubSeq(ds, 1, Len(ds) - 1)) + DigitVal(ds[Len(ds)])

DigitChar(d) ==
  CASE d = 0 -> "0" [] d = 1 -> "1" [] d = 2 -> "2" [] d = 3 -> "3"
    [] d = 4 -> "4" [] d = 5 -> "5" [] d = 6 -> "6" [] d = 7 -> "7"
    [] d = 8 -> "8" [] d = 9 -> "9"

\* str(n) for n >= 0.
RECURSIVE Decimal(_)
Decimal(n) ==
  IF n < 10 THEN <<DigitChar(n)>>
  ELSE Decimal(n \div 10) \o <<DigitChar(n % 10)>>

RECURSIVE ZeroFill(_, _)
ZeroFill(ds, width) ==
  IF Len(ds) >= width THEN ds ELSE ZeroFill(<<"0">> \o ds, width)

\* f"{next_id:03d}"
id_str_drop(next_id) == Decimal(next_id)
id_str(next_id) == ZeroFill(Decimal(next_id), 3)

\* ------------------------------------------------------------ the pattern
\* re.compile(r'^\d{4}-\d{2}-\d{2}-(\d+)-.*\.md$').match(name)
\* DatePrefix: ^\d{4}-\d{2}-\d{2}-
DatePrefix(s) ==
  /\ Len(s) >= 11
  /\ \A i \in {1, 2, 3, 4, 6, 7, 9, 10} : IsDigit(s[i])
  /\ s[5] = "-" /\ s[8] = "-" /\ s[11] = "-"

\* The tail  .*\.md$  applied after position p (the hyphen that follows the
\* ID), with k the position where .* ends: '.' matches every character but a
\* newline, and '$' matches at the end of the string or just before a newline
\* that ends the string.
TailMatch(s, p) ==
  \E k \in {Len(s) - 3, Len(s) - 4} :
    /\ k >= p
    /\ \A j \in (p + 1) .. k : s[j] # NL
    /\ s[k + 1] = "." /\ s[k + 2] = "m" /\ s[k + 3] = "d"
    /\ k + 3 = Len(s) \/ s[k + 4] = NL

\* The ends e of the digit run (\d+) for which the whole pattern matches.
GroupEnds(s) ==
  IF ~DatePrefix(s) THEN {}
  ELSE {e \in 12 .. Len(s) :
          /\ \A j \in 12 .. e : IsDigit(s[j])
          /\ e + 1 <= Len(s)
          /\ s[e + 1] = "-"
          /\ TailMatch(s, e + 1)}

pattern(s) == GroupEnds(s) # {}

\* match.group(1): \d+ is greedy, so the longest digit run that matches.
group1(s) ==
  LET ends == GroupEnds(s)
      e == CHOOSE x \in ends : \A y \in ends : y <= x
  IN  SubSeq(s, 12, e)

valid_pattern(s) == pattern(s)

\* filename.endswith(".md")
endswith_md(s) == Len(s) >= 3 /\ SubSeq(s, Len(s) - 2, Len(s)) = MD

\* ------------------------------------------------------------ clean title
\* str.replace('.md', ''): every non-overlapping occurrence, left to right.
RECURSIVE replace_md(_)
replace_md(s) ==
  IF Len(s) < 3 THEN s
  ELSE IF SubSeq(s, 1, 3) = MD THEN replace_md(SubSeq(s, 4, Len(s)))
  ELSE <<s[1]>> \o replace_md(Tail(s))

\* str.lower() on the characters of the model's alphabet.
LowerChar(c) ==
  CASE c = "A" -> "a" [] c = "B" -> "b"
    [] OTHER -> c

lower(s) == [i \in 1 .. Len(s) |-> LowerChar(s[i])]

\* str.replace(' ', '-')
replace_space(s) == [i \in 1 .. Len(s) |-> IF s[i] = " " THEN "-" ELSE s[i]]

\* re.sub(r'[^a-z0-9-]', '', s)
RECURSIVE sub_non_slug(_)
sub_non_slug(s) ==
  IF s = <<>> THEN <<>>
  ELSE IF s[1] \in LowerAZ \cup Digits \cup {"-"}
       THEN <<s[1]>> \o sub_non_slug(Tail(s))
       ELSE sub_non_slug(Tail(s))

clean_title(filename) == sub_non_slug(replace_space(lower(replace_md(filename))))

\* f"{today}-{id_str}-{clean_title}.md"
new_filename_nohyphen(today, next_id, filename) ==
  today \o H \o id_str(next_id) \o clean_title(filename) \o MD
new_filename(today, next_id, filename) ==
  today \o H \o id_str(next_id) \o H \o clean_title(filename) \o MD

\* ------------------------------------------------------------- the inputs
\* datetime.date.today().strftime('%Y-%m-%d'): the calendar dates of the model.
Day1 == <<"2", "0", "2", "4", "-", "0", "1", "-", "0", "1">>
Day2 == <<"2", "0", "2", "4", "-", "0", "1", "-", "0", "2">>
Dates == {Day1}

\* The names a folder may hold when the program starts.
F_c001a   == Day1 \o H \o <<"0", "0", "1">> \o H \o <<"a">> \o MD
F_c0999z  == Day2 \o H \o <<"0", "9", "9", "9">> \o H \o <<"z">> \o MD
F_a       == <<"a">> \o MD
F_A       == <<"A">> \o MD
F_near    == Day1 \o H \o <<"5", " ", "B", "!">> \o MD
F_amdx    == <<"a">> \o MD \o <<"x">> \o MD
F_dotmd   == MD
F_txt     == <<"a", ".", "t", "x", "t">>
F_nlEnd   == Day1 \o H \o <<"5">> \o H \o <<"x">> \o MD \o <<NL>>
F_nlIn    == Day1 \o H \o <<"9">> \o H \o <<"a", NL, "b">> \o MD

Pool == {F_c001a, F_c0999z, F_near, F_a, F_A, F_amdx, F_dotmd, F_txt,
         F_nlEnd, F_nlIn}

\* The second target folder draws its names from a part of the pool.
SmallPool == {F_c001a, F_a}

\* ------------------------------------------------------------------ state
TARGET_FOLDERS == <<"projects", "templates">>
Folders == {TARGET_FOLDERS[i] : i \in 1 .. Len(TARGET_FOLDERS)}

VARIABLES
  exists,    \* the target folders that exist (os.path.exists)
  files,     \* files[f]: name of an entry of f |-> identity of the file
  pc,        \* "main", "scanned", "loop", "done" (main returned),
             \* "crashed" (uncaught exception)
  fi,        \* index in TARGET_FOLDERS of main's loop
  next_id,   \* process_folder's running counter
  listing,   \* the names of os.listdir(folder_path) the loop of process_folder
             \* has not reached yet; the order of the list is arbitrary, so the
             \* loop takes any of them next
  run,       \* number of the current program start
  pre,       \* history: files when the current program start began
  visited,   \* history: folders process_folder was called on, in call order
  scans,     \* history: calls of get_next_id: folder and result
  log        \* history: calls of shutil.move: folder, old, new, id, outcome

vars == <<exists, files, pc, fi, next_id, listing, run, pre, visited, scans, log>>

PoolOf(f) == IF f = TARGET_FOLDERS[1] THEN Pool ELSE SmallPool
Items == {c \in Folders \X Pool : c[2] \in PoolOf(c[1])}

Names(dir) == DOMAIN dir

\* Sets of at most k elements of S.
RECURSIVE UpTo(_, _)
UpTo(S, k) ==
  IF k = 0 THEN {{}}
  ELSE LET smaller == UpTo(S, k - 1)
       IN  smaller \cup {s \cup {x} : s \in smaller, x \in S}

\* os.listdir returns the entries in an arbitrary order.
RECURSIVE Listings(_)
Listings(S) ==
  IF S = {} THEN {<<>>}
  ELSE UNION {{<<x>> \o l : l \in Listings(S \ {x})} : x \in S}

Init ==
  /\ \E content \in UpTo(Items, MaxFiles) :
       /\ files = [f \in Folders |->
                     [n \in {m \in Pool : <<f, m>> \in content} |-> n]]
       /\ exists \in {E \in SUBSET Folders : \A c \in content : c[1] \in E}
  /\ pc = "main"
  /\ fi = 1
  /\ next_id = 0
  /\ listing = {}
  /\ run = 1
  /\ pre = files
  /\ visited = <<>>
  /\ scans = <<>>
  /\ log = <<>>

\* ------------------------------------------------------------ get_next_id
\* The loop of get_next_id over one listing of the directory.
RECURSIVE max_id(_)
max_id(l) ==
  IF l = <<>> THEN 0
  ELSE LET before == max_id(SubSeq(l, 1, Len(l) - 1))
           filename == l[Len(l)]
       IN  IF pattern(filename)
           THEN LET current_id == ParseInt(group1(filename))
                IN  IF current_id > before THEN current_id ELSE before
           ELSE before

get_next_id_same(present, l) == IF ~present THEN 1 ELSE max_id(l)
get_next_id(present, l) == IF ~present THEN 1 ELSE max_id(l) + 1

\* --------------------------------------------------------- process_folder
Folder == TARGET_FOLDERS[fi]

\* shutil.move(file_path, new_path) inside one directory: an existing
\* destination is replaced.
move(dir, old, new) ==
  [n \in (Names(dir) \ {old}) \cup {new} |-> IF n = new THEN dir[old] ELSE dir[n]]

\* Variant: no os.path.exists test, os.listdir raises on the missing folder.
ProcessMissing_raise ==
  /\ pc = "main" /\ fi <= Len(TARGET_FOLDERS)
  /\ Folder \notin exists
  /\ visited' = Append(visited, Folder)
  /\ scans' = Append(scans, [folder |-> Folder, result |-> 1])
  /\ pc' = "crashed"
  /\ UNCHANGED <<exists, files, fi, next_id, listing, run, pre, log>>

\* process_folder on a folder that does not exist: returns at once.
ProcessMissing ==
  /\ pc = "main" /\ fi <= Len(TARGET_FOLDERS)
  /\ Folder \notin exists
  /\ visited' = Append(visited, Folder)
  /\ fi' = fi + 1
  /\ UNCHANGED <<exists, files, pc, next_id, listing, run, pre, scans, log>>

\* process_folder on a folder that exists, up to the return of get_next_id.
ProcessStart ==
  /\ pc = "main" /\ fi <= Len(TARGET_FOLDERS)
  /\ Folder \in exists
  /\ \E result \in {get_next_id(TRUE, l) : l \in Listings(Names(files[Folder]))} :
       /\ next_id' = result
       /\ scans' = Append(scans, [folder |-> Folder, result |-> result])
  /\ visited' = Append(visited, Folder)
  /\ pc' = "scanned"
  /\ UNCHANGED <<exists, files, fi, listing, run, pre, log>>

\* os.listdir raises (permission denied, I/O error, not a directory) in
\* get_next_id: nothing catches it.
ScanFail ==
  /\ pc = "main" /\ fi <= Len(TARGET_FOLDERS)
  /\ Folder \in exists
  /\ visited' = Append(visited, Folder)
  /\ pc' = "crashed"
  /\ UNCHANGED <<exists, files, fi, next_id, listing, run, pre, scans, log>>

\* for filename in os.listdir(folder_path): the listing is taken once.
ListFolder ==
  /\ pc = "scanned"
  /\ listing' = Names(files[Folder])
  /\ pc' = "loop"
  /\ UNCHANGED <<exists, files, fi, next_id, run, pre, visited, scans, log>>

\* os.listdir raises (permission denied, I/O error) in process_folder:
\* nothing catches it.
ListFail ==
  /\ pc = "scanned"
  /\ pc' = "crashed"
  /\ UNCHANGED <<exists, files, fi, next_id, listing, run, pre, visited, scans, log>>

Qualifies(filename) == endswith_md(filename) /\ ~valid_pattern(filename)

SkipNotMd ==
  /\ pc = "loop"
  /\ \E filename \in listing :
       /\ ~endswith_md(filename)
       /\ listing' = listing \ {filename}
  /\ UNCHANGED <<exists, files, pc, fi, next_id, run, pre, visited, scans, log>>

SkipValid ==
  /\ pc = "loop"
  /\ \E filename \in listing :
       /\ endswith_md(filename)
       /\ valid_pattern(filename)
       /\ listing' = listing \ {filename}
  /\ UNCHANGED <<exists, files, pc, fi, next_id, run, pre, visited, scans, log>>

Entry(filename, new, ok) ==
  [folder |-> Folder, old |-> filename, new |-> new, id |-> next_id, ok |-> ok,
   clash |-> new \in Names(files[Folder])]

RenameOk ==
  /\ pc = "loop"
  /\ \E filename \in listing, today \in Dates :
       LET new == new_filename(today, next_id, filename)
       IN  /\ Qualifies(filename)
           /\ files' = [files EXCEPT ![Folder] = move(@, filename, new)]
           /\ log' = Append(log, Entry(filename, new, TRUE))
           /\ listing' = listing \ {filename}
  /\ next_id' = next_id + 1
  /\ UNCHANGED <<exists, pc, fi, run, pre, visited, scans>>

\* Variant: main catches the exception and goes on with the next folder.
RenameFail_continue ==
  /\ pc = "loop"
  /\ \E filename \in listing, today \in Dates :
       LET new == new_filename(today, next_id, filename)
       IN  /\ Qualifies(filename)
           /\ log' = Append(log, Entry(filename, new, FALSE))
  /\ pc' = "main"
  /\ fi' = fi + 1
  /\ UNCHANGED <<exists, files, next_id, listing, run, pre, visited, scans>>

\* Variant: the renames of the batch are undone when one fails.
RenameFail_rollback ==
  /\ pc = "loop"
  /\ \E filename \in listing, today \in Dates :
       LET new == new_filename(today, next_id, filename)
       IN  /\ Qualifies(filename)
           /\ log' = Append(log, Entry(filename, new, FALSE))
  /\ files' = [files EXCEPT ![Folder] = pre[Folder]]
  /\ pc' = "crashed"
  /\ UNCHANGED <<exists, fi, next_id, listing, run, pre, visited, scans>>

\* shutil.move raises: the exception leaves process_folder and main.
RenameFail ==
  /\ pc = "loop"
  /\ \E filename \in listing, today \in Dates :
       LET new == new_filename(today, next_id, filename)
       IN  /\ Qualifies(filename)
           /\ log' = Append(log, Entry(filename, new, FALSE))
  /\ pc' = "crashed"
  /\ UNCHANGED <<exists, files, fi, next_id, listing, run, pre, visited, scans>>

\* The loop of process_folder is over: back in main's loop.
ProcessReturn ==
  /\ pc = "loop" /\ listing = {}
  /\ pc' = "main"
  /\ fi' = fi + 1
  /\ UNCHANGED <<exists, files, next_id, listing, run, pre, visited, scans, log>>

\* ------------------------------------------------------------------- main
MainReturn ==
  /\ pc = "main" /\ fi > Len(TARGET_FOLDERS)
  /\ pc' = "done"
  /\ UNCHANGED <<exists, files, fi, next_id, listing, run, pre, visited, scans, log>>

\* The program is started again after a start that returned from main
\* (if __name__ == "__main__": main()).
Start ==
  /\ pc = "done"
  /\ run < MaxRuns
  /\ run' = run + 1
  /\ pc' = "main"
  /\ fi' = 1
  /\ next_id' = 0
  /\ listing' = {}
  /\ pre' = files
  /\ visited' = <<>>
  /\ scans' = <<>>
  /\ log' = <<>>
  /\ UNCHANGED <<exists, files>>

Next ==
  \/ ProcessMissing
  \/ ProcessStart
  \/ ScanFail
  \/ ListFolder
  \/ ListFail
  \/ SkipNotMd
  \/ SkipValid
  \/ RenameOk
  \/ RenameFail
  \/ ProcessReturn
  \/ MainReturn
  \/ Start

Spec == Init /\ [][Next]_vars

TypeOK ==
  /\ exists \subseteq Folders
  /\ pc \in {"main", "scanned", "loop", "done", "crashed"}
  /\ fi \in 1 .. Len(TARGET_FOLDERS) + 1
  /\ next_id \in Nat
  /\ run \in 1 .. MaxRuns

\* ================================================================ claims
\* The conforming pattern as the specification words it (4.1):
\* YYYY-MM-DD-ID-title.md, the date as 4-2-2 digits, ID one or more decimal
\* digits, title any sequence of characters up to the .md suffix.
IdStop(s) == {p \in 13 .. Len(s) - 3 : s[p] = "-" /\ \A j \in 12 .. p - 1 : IsDigit(s[j])}

Conforming(s) ==
  /\ Len(s) >= 16
  /\ SubSeq(s, Len(s) - 2, Len(s)) = MD
  /\ \A i \in {1, 2, 3, 4, 6, 7, 9, 10} : IsDigit(s[i])
  /\ s[5] = "-" /\ s[8] = "-" /\ s[11] = "-"
  /\ IdStop(s) # {}

\* The hyphen that ends the ID segment of a conforming name.
IdEnd(s) == CHOOSE p \in IdStop(s) : TRUE
IdSegment(s) == SubSeq(s, 12, IdEnd(s) - 1)
TitleSegment(s) == SubSeq(s, IdEnd(s) + 1, Len(s) - 3)
EmbeddedId(s) == ParseInt(IdSegment(s))

EmbeddedIds(dir) == {EmbeddedId(n) : n \in {m \in Names(dir) : Conforming(m)}}

\* The title segment as the specification words it (4.2 step c).
Slug(filename) ==
  LET stem == SubSeq(filename, 1, Len(filename) - 3)
      low == [i \in 1 .. Len(stem) |->
                IF stem[i] = " " THEN "-" ELSE LowerChar(stem[i])]
  IN  SelectSeq(low, LAMBDA c : c \in LowerAZ \cup Digits \cup {"-"})

LogOf(f) == SelectSeq(log, LAMBDA e : e.folder = f)
ScansOf(f) == SelectSeq(scans, LAMBDA r : r.folder = f)
NoFailure == \A k \in 1 .. Len(log) : log[k].ok

\* C1: in a run of process_folder with no rename failing, the IDs given to
\* the renamed files are, in enumeration order, n, n+1, n+2, ... with n the
\* value get_next_id returned for the folder; they are pairwise distinct and
\* each is greater than every ID embedded in a conforming filename that was
\* in the folder before the run.
C1_IdsOfOneRun ==
  NoFailure =>
    \A f \in Folders :
      LET es == LogOf(f)
      IN  es # <<>> =>
            /\ Len(ScansOf(f)) = 1
            /\ \A i \in 1 .. Len(es) : es[i].id = ScansOf(f)[1].result + i - 1
            /\ \A i, j \in 1 .. Len(es) : i # j => es[i].id # es[j].id
            /\ \A i \in 1 .. Len(es) : \A old \in EmbeddedIds(pre[f]) : es[i].id > old

\* C2: get_next_id returns 1 for a folder that does not exist or holds no
\* conforming filename, and otherwise the maximum embedded ID plus one; names
\* that do not match the pattern do not change the result.
SpecNextId(dir) ==
  IF EmbeddedIds(dir) = {} THEN 1
  ELSE (CHOOSE m \in EmbeddedIds(dir) : \A x \in EmbeddedIds(dir) : x <= m) + 1

C2_NextId ==
  /\ \A k \in 1 .. Len(scans) : scans[k].result = SpecNextId(pre[scans[k].folder])
  /\ \A f \in Folders \ exists : get_next_id(FALSE, <<>>) = SpecNextId(files[f])

\* C3: the name a file is renamed to is {date}-{id}-{title}.md with the ID
\* zero-padded to at least three digits, and it matches the conforming
\* pattern, also when the title segment is empty.
C3_NewNameConforms ==
  \A k \in 1 .. Len(log) :
    LET new == log[k].new
    IN  /\ Conforming(new)
        /\ SubSeq(new, 1, 10) \in Dates
        /\ EmbeddedId(new) = log[k].id
        /\ Len(IdSegment(new)) >= 3
        /\ Len(IdSegment(new)) > 3 => IdSegment(new)[1] # "0"
        /\ new = SubSeq(new, 1, 10) \o H \o IdSegment(new) \o H \o TitleSegment(new) \o MD

C3_Witness ==
  \E k \in 1 .. Len(log) :
    /\ log[k].ok
    /\ log[k].old = F_dotmd
    /\ log[k].id >= 1000
    /\ TitleSegment(log[k].new) = <<>>
    /\ log[k].new \in Names(files[log[k].folder])

\* C4: every entry that matches the conforming pattern and every entry whose
\* name does not end with .md is present under the same name after the run
\* as before it.
C4_Frame ==
  \A f \in Folders : \A n \in Names(pre[f]) :
    (Conforming(n) \/ ~endswith_md(n)) =>
      n \in Names(files[f]) /\ files[f][n] = pre[f][n]

\* C5: the title segment of the new name is the original filename with the
\* trailing .md (only that one) stripped, lowercased, spaces replaced by
\* hyphens, and every character but a-z, 0-9 and the hyphen removed.
C5_Title ==
  \A k \in 1 .. Len(log) : TitleSegment(log[k].new) = Slug(log[k].old)

\* C6 (as stated): main applies process_folder to every configured folder in
\* list order, and a failure in one folder does not abort the folders after
\* it: whenever the program has ended, every target folder was processed.
C6_FailureDoesNotAbort ==
  pc \in {"done", "crashed"} => visited = TARGET_FOLDERS

\* C6 (amended): main applies process_folder to the configured folders in
\* list order; it reaches all of them when main returns, and a failure while
\* processing one folder ends the program: the folders after it in the list
\* are not processed and keep their content.
Failed == pc = "crashed" \/ ~NoFailure

C6_FailureAborts ==
  /\ Len(visited) <= Len(TARGET_FOLDERS)
  /\ visited = SubSeq(TARGET_FOLDERS, 1, Len(visited))
  /\ pc = "done" => visited = TARGET_FOLDERS
  /\ Failed =>
       /\ pc = "crashed"
       /\ fi = Len(visited)
       /\ \A k \in 1 .. Len(log) : ~log[k].ok => k = Len(log) /\ log[k].folder = Folder
       /\ \A j \in (fi + 1) .. Len(TARGET_FOLDERS) :
            /\ files[TARGET_FOLDERS[j]] = pre[TARGET_FOLDERS[j]]
            /\ ScansOf(TARGET_FOLDERS[j]) = <<>>

C6_Witness ==
  /\ pc = "crashed"
  /\ visited = <<TARGET_FOLDERS[1]>>
  /\ ~NoFailure
  /\ \E n \in Names(files[TARGET_FOLDERS[2]]) : Qualifies(n)

\* C7: on a target folder that does not exist process_folder renames
\* nothing, raises no error and does not call get_next_id, and main goes on
\* with the next configured folder.
C7_MissingFolder ==
  \A i \in 1 .. Len(visited) :
    LET f == TARGET_FOLDERS[i]
    IN  f \notin exists =>
          /\ ScansOf(f) = <<>>
          /\ LogOf(f) = <<>>
          /\ files[f] = pre[f]
          /\ fi > i
          /\ pc = "done" => visited = TARGET_FOLDERS

C7_Witness ==
  /\ TARGET_FOLDERS[1] \notin exists
  /\ pc = "done"
  /\ \E k \in 1 .. Len(log) : log[k].ok /\ log[k].folder = TARGET_FOLDERS[2]

\* C8: if the k-th rename of a run fails, the k-1 files renamed before it
\* keep their new names, the failing file and every file not yet enumerated
\* keep their original names, and nothing is undone.
C8_NoRollback ==
  \A k \in 1 .. Len(log) :
    ~log[k].ok =>
      LET f == log[k].folder
      IN  /\ k = Len(log)
          /\ \A j \in 1 .. (k - 1) :
               /\ log[j].ok
               /\ log[j].new \in Names(files[log[j].folder])
               /\ files[log[j].folder][log[j].new] = pre[log[j].folder][log[j].old]
               /\ log[j].old \notin Names(files[log[j].folder])
          /\ log[k].old \in listing
          /\ \A n \in listing :
               n \in Names(files[f]) /\ files[f][n] = pre[f][n]

C8_Witness ==
  /\ pc = "crashed"
  /\ Len(log) >= 2
  /\ ~log[Len(log)].ok
  /\ log[Len(log) - 1].folder = log[Len(log)].folder
  /\ \E n \in listing : n # log[Len(log)].old /\ Qualifies(n)

\* C9: the destination of a rename is never the name of an entry present in
\* the folder at that moment, so no rename overwrites a file and the folder
\* keeps its number of entries.
C9_NoOverwrite ==
  /\ \A k \in 1 .. Len(log) : ~log[k].clash
  /\ \A f \in Folders :
       /\ Cardinality(Names(files[f])) = Cardinality(Names(pre[f]))
       /\ \A n, m \in Names(files[f]) : files[f][n] = files[f][m] => n = m

C9_Witness ==
  /\ pc = "done"
  /\ \E f \in Folders :
       /\ F_c001a \in Names(pre[f])
       /\ \E j, k \in 1 .. Len(log) :
            /\ j < k
            /\ log[j].folder = f /\ log[k].folder = f
            /\ log[j].ok /\ log[k].ok
            /\ clean_title(log[j].old) = clean_title(log[k].old)
            /\ clean_title(log[j].old) = TitleSegment(F_c001a)

\* C10: after a run that completes without failure every entry whose name
\* ends with .md matches the conforming pattern, and a second run that
\* follows it renames nothing and leaves the folders unchanged.
C10_Idempotent ==
  /\ pc = "done" =>
       \A f \in Folders : \A n \in Names(files[f]) : endswith_md(n) => Conforming(n)
  /\ run >= 2 => log = <<>> /\ files = pre

C10_Witness ==
  /\ run = 2
  /\ pc = "done"
  /\ \E f \in Folders : \E n \in Names(files[f]) : files[f][n] # n

====
